---- MODULE Spec2Model ----
(***************************************************************************)
(* MoneyTalks: camera capture, image classification of rupiah notes and    *)
(* test-time-augmentation ensembles in the browser.                        *)
(*                                                                         *)
(* The specifications share the variables of this module:                  *)
(*   SpecEnsemble  the four ensemble aggregators (predictWithEnsemble of   *)
(*                 the two model.js variants, the multi-crop predict, and  *)
(*                 ImageUtils.ensemblePrediction), member by member;       *)
(*   SpecCrops     the source rectangles the crop / augmentation code      *)
(*                 hands to drawImage;                                     *)
(*   Spec          the app.js page: camera lifecycle, capture, unload;     *)
(*   SpecLive      the same page under the browser's scheduling;          *)
(*   SpecCapture   re-entered captureAndPredict and uploads on that page;  *)
(*   SpecCamera    the Camera object (init, switchCamera, stopCamera);     *)
(*   SpecModel     the model handler (init, predict, dispose);             *)
(*   SpecRouter    the hash router.                                        *)
(*                                                                         *)
(* JavaScript numbers are modelled as exact rationals <<n, d>> (d > 0, in  *)
(* lowest terms), with NaN and undefined as two extra values; rounding of  *)
(* IEEE doubles is not modelled.  Arrays are 1-based sequences, so the     *)
(* index 0 stands for JavaScript's -1 ("not found").                       *)
(***************************************************************************)
EXTENDS Integers, Sequences, FiniteSets, TLC

VARIABLES
  \* ---- ensemble aggregation (SpecEnsemble)
  fn,            \* which aggregator runs
  classNames,    \* CLASS_NAMES of the model file in use
  i,             \* loop counter of the member loop
  predictions,   \* allPredictions / predictions: what the members returned
  result,        \* what the call returned or threw
  \* ---- crop generation (SpecCrops)
  crop,
  \* ---- the page (Spec)
  app,
  \* ---- the Camera object of camera.js (SpecCamera)
  camera,
  \* ---- the model handler of model.js (SpecModel)
  handler,
  \* ---- the Router object of router.js (SpecRouter)
  router

vars == <<fn, classNames, i, predictions, result, crop, app, camera, handler, router>>

ensVars == <<fn, classNames, i, predictions, result>>

(***************************************************************************)
(* JavaScript numbers                                                      *)
(***************************************************************************)
NaN == <<0, 0>>

Undefined == <<1, 0>>

IsNum(a) == a[2] > 0

Abs(n) == IF n < 0 THEN -n ELSE n

RECURSIVE GCD(_, _)
GCD(a, b) == IF b = 0 THEN a ELSE GCD(b, a % b)

Norm(n, d) == LET g == GCD(Abs(n), d) IN <<n \div g, d \div g>>

Num(n, d) == Norm(n, d)

Zero == <<0, 1>>

\* a + b: NaN as soon as one operand is NaN or undefined
JsAdd(a, b) ==
  IF IsNum(a) /\ IsNum(b) THEN Norm(a[1] * b[2] + b[1] * a[2], a[2] * b[2]) ELSE NaN

JsSub(a, b) ==
  IF IsNum(a) /\ IsNum(b) THEN Norm(a[1] * b[2] - b[1] * a[2], a[2] * b[2]) ELSE NaN

\* a * b
JsMul(a, b) ==
  IF IsNum(a) /\ IsNum(b) THEN Norm(a[1] * b[1], a[2] * b[2]) ELSE NaN

\* a / k for an integer count k >= 0; 0 / 0 is NaN (x / 0 for x > 0 is
\* Infinity, which no caller below produces: a zero count has a zero sum)
JsDiv(a, k) ==
  IF IsNum(a) /\ k > 0 THEN Norm(a[1], a[2] * k) ELSE NaN

\* a > b, a < b, a === b: false whenever an operand is NaN or undefined
JsGt(a, b) == IsNum(a) /\ IsNum(b) /\ a[1] * b[2] > b[1] * a[2]

JsLt(a, b) == JsGt(b, a)

JsStrictEq(a, b) == IsNum(a) /\ IsNum(b) /\ a = b

\* arr[j] of a JavaScript array: undefined outside the array
At(arr, j) == IF j \in 1..Len(arr) THEN arr[j] ELSE Undefined

\* Math.max(...arr) of a non-empty array: NaN if any entry is not a number
MathMax(arr) ==
  IF \E j \in 1..Len(arr) : ~IsNum(arr[j])
  THEN NaN
  ELSE CHOOSE m \in {arr[j] : j \in 1..Len(arr)} :
         \A j \in 1..Len(arr) : ~JsGt(arr[j], m)

\* arr.indexOf(v): the first index whose entry === v, 0 (JavaScript -1) if none
IndexOf(arr, v) ==
  IF \E j \in 1..Len(arr) : JsStrictEq(arr[j], v)
  THEN CHOOSE j \in 1..Len(arr) :
         JsStrictEq(arr[j], v) /\ \A k \in 1..(j - 1) : ~JsStrictEq(arr[k], v)
  ELSE 0

RECURSIVE SumSeq(_)
SumSeq(arr) == IF arr = <<>> THEN Zero ELSE JsAdd(Head(arr), SumSeq(Tail(arr)))

(***************************************************************************)
(* Label sets and constants of the model files                             *)
(***************************************************************************)
CLASS_NAMES_000 ==
  <<"1.000", "10.000", "100.000", "2.000", "20.000", "5.000", "50.000">>

CLASS_NAMES_001 ==
  <<"1000", "10000", "100000", "2000", "20000", "5000", "50000">>

CLASS_NAMES_002 ==
  <<"1000", "2000", "5000", "10000", "20000", "50000", "100000">>

numPredictions == 5

numCrops == 5

NameAtOffByOne(names, idx) ==
  IF idx + 1 \in 1..Len(names) THEN names[idx + 1] ELSE "undefined"

\* CLASS_NAMES[classIndex]: undefined when classIndex is -1
NameAt(names, idx) == IF idx \in 1..Len(names) THEN names[idx] ELSE "undefined"

\* every denomination weighted alike
denomWeightsUniform(name) == Num(1, 1)

\* denomWeights[CLASS_NAMES[j]] of the multi-crop predict
denomWeights(name) ==
  CASE name = "5000"  -> Num(21, 20)
    [] name = "10000" -> Num(11, 10)
    [] name = "20000" -> Num(21, 20)
    [] OTHER          -> Num(1, 1)

(***************************************************************************)
(* predict of the single-image model files: the result object built from   *)
(* the model's output probs                                                *)
(***************************************************************************)
predict(names, probs) ==
  LET maxProbability == MathMax(probs)
      classIndex == IndexOf(probs, maxProbability)
  IN [className |-> NameAt(names, classIndex),
      probability |-> maxProbability,
      allProbabilities |->
        [idx \in 1..Len(names) |-> [name |-> names[idx], probability |-> At(probs, idx)]]]

(***************************************************************************)
(* predictWithEnsemble (both model.js variants) and the multi-crop predict *)
(***************************************************************************)
\* the accumulation loops: combinedPredictions[j] += pred[j] over a fresh
\* zero-filled buffer; the inputs are only read
RECURSIVE SumInto(_, _)
SumInto(combined, preds) ==
  IF preds = <<>> THEN combined
  ELSE SumInto([j \in 1..Len(combined) |-> JsAdd(combined[j], At(Head(preds), j))],
               Tail(preds))

AccumulateAliased(names, preds) ==
  LET s == SumInto([j \in 1..Len(names) |-> Zero], preds)
  IN [combined |-> s, inputs |-> IF preds = <<>> THEN preds ELSE [preds EXCEPT ![1] = s]]

Accumulate(names, preds) ==
  [combined |-> SumInto([j \in 1..Len(names) |-> Zero], preds), inputs |-> preds]

DivideEachOffByOne(combined, num) ==
  [j \in 1..Len(combined) |-> JsDiv(combined[j], num - 1)]

\* combinedPredictions[j] /= numPredictions
DivideEach(combined, num) ==
  [j \in 1..Len(combined) |-> JsDiv(combined[j], num)]

\* combinedPredictions[j] *= denomWeights[CLASS_NAMES[j]]
ApplyDenomWeights(names, combined) ==
  [j \in 1..Len(names) |-> JsMul(combined[j], denomWeights(names[j]))]

\* Math.max, indexOf and the result object
TopPrediction(names, combined) ==
  LET maxProbability == MathMax(combined)
      classIndex == IndexOf(combined, maxProbability)
  IN [status |-> "returned",
      className |-> NameAt(names, classIndex),
      probability |-> maxProbability,
      allProbabilities |->
        [idx \in 1..Len(names) |-> [name |-> names[idx], probability |-> combined[idx]]]]

predictWithEnsemble(names, preds) ==
  TopPrediction(names, DivideEach(Accumulate(names, preds).combined, numPredictions))

predictMultiCrop(names, preds) ==
  TopPrediction(names,
    ApplyDenomWeights(names, DivideEach(Accumulate(names, preds).combined, numCrops)))

(***************************************************************************)
(* ImageUtils.ensemblePrediction                                           *)
(***************************************************************************)
\* scales of createOptimizedCrops, and the number of crops it returns:
\* the center crop, one per scale, four corners
scales == <<Num(9, 10), Num(3, 4), Num(3, 5)>>

NumOptimizedCrops == 1 + Len(scales) + 4

\* The value of a property key that is a canonical array index ("1000"), and
\* -1 for any other key ("1.000"): Object.keys lists the array-index keys
\* first, in ascending numeric order, then the others in insertion order.
ArrayIndex(name) ==
  CASE name = "1000"   -> 1000
    [] name = "2000"   -> 2000
    [] name = "5000"   -> 5000
    [] name = "10000"  -> 10000
    [] name = "20000"  -> 20000
    [] name = "50000"  -> 50000
    [] name = "100000" -> 100000
    [] OTHER           -> -1

RECURSIVE SortByIndex(_)
SortByIndex(S) ==
  IF S = {} THEN <<>>
  ELSE LET m == CHOOSE x \in S : \A y \in S : ArrayIndex(x) <= ArrayIndex(y)
       IN <<m>> \o SortByIndex(S \ {m})

IsStringKey(name) == ArrayIndex(name) < 0

ObjectKeys(inserted) ==
  SortByIndex({inserted[k] : k \in 1..Len(inserted)} \ {n \in {inserted[k] : k \in 1..Len(inserted)} : IsStringKey(n)})
    \o SelectSeq(inserted, IsStringKey)

\* classScores is kept as [keys: the property names in insertion order,
\* val: name -> score]
RECURSIVE Flatten(_)
Flatten(preds) ==
  IF preds = <<>> THEN <<>> ELSE Head(preds).allProbabilities \o Flatten(Tail(preds))

RECURSIVE InOrder(_, _)
InOrder(entries, ks) ==
  IF ks = {} THEN <<>>
  ELSE LET k == CHOOSE x \in ks : \A y \in ks : x <= y
       IN <<entries[k].name>> \o InOrder(entries, ks \ {k})

\* the names in the order their property is created: by the first forEach
\* for the names of predictions[0], by += for a name only a later one has
InsertedKeys(preds) ==
  LET flat == Flatten(preds)
  IN InOrder(flat, {k \in 1..Len(flat) : \A m \in 1..(k - 1) : flat[m].name # flat[k].name})

EntriesNamed(prediction, name) ==
  SelectSeq(prediction.allProbabilities, LAMBDA p : p.name = name)

RECURSIVE AddEntries(_, _)
AddEntries(score, entries) ==
  IF entries = <<>> THEN score
  ELSE AddEntries(JsAdd(score, Head(entries).probability), Tail(entries))

\* classScores[name] after the second forEach: 0 from the first forEach if
\* predictions[0] has the name, otherwise undefined; then += each probability
RECURSIVE AddPredictions(_, _, _)
AddPredictions(score, name, preds) ==
  IF preds = <<>> THEN score
  ELSE AddPredictions(AddEntries(score, EntriesNamed(Head(preds), name)), name, Tail(preds))

InitScore(first, name) ==
  IF EntriesNamed(first, name) # <<>> THEN Zero ELSE Undefined

\* the two forEach loops over predictions; they read the prediction objects
SumScores(preds) ==
  LET keys == InsertedKeys(preds)
  IN [classScores |->
        [keys |-> keys,
         val |-> [name \in {keys[k] : k \in 1..Len(keys)} |->
                   AddPredictions(InitScore(preds[1], name), name, preds)]],
      inputs |-> preds]

ScoreOf(scores, name) == scores.val[name]

\* Object.keys(classScores).forEach(...): average, collect, keep the first
\* strictly greater average
RECURSIVE ScanKeys(_, _, _, _)
ScanKeys(keys, scores, n, acc) ==
  IF keys = <<>> THEN acc
  ELSE LET className == Head(keys)
           avgProbability == JsDiv(ScoreOf(scores, className), n)
           pushed == Append(acc.allProbabilities,
                            [name |-> className, probability |-> avgProbability])
       IN ScanKeys(Tail(keys), scores, n,
            IF JsGt(avgProbability, acc.probability)
            THEN [status |-> "returned", className |-> className,
                  probability |-> avgProbability, allProbabilities |-> pushed]
            ELSE [acc EXCEPT !.allProbabilities = pushed])

AverageAndPick(scores, n) ==
  ScanKeys(ObjectKeys(scores.keys), scores, n,
           [status |-> "returned", className |-> "null", probability |-> Zero,
            allProbabilities |-> <<>>])

Threw(msg) == [status |-> "threw", error |-> msg]

ensemblePredictionUnchecked(preds) ==
  IF preds = <<>>
  THEN [status |-> "returned", className |-> "null", probability |-> NaN,
        allProbabilities |-> <<>>]
  ELSE AverageAndPick(SumScores(preds).classScores, Len(preds))

\* dividing by the number of crops instead of the number of predictions
ensemblePredictionDividingByCrops(preds) ==
  IF Len(preds) = 0
  THEN Threw("All predictions failed")
  ELSE AverageAndPick(SumScores(preds).classScores, NumOptimizedCrops)

ensemblePrediction(preds) ==
  IF Len(preds) = 0
  THEN Threw("All predictions failed")
  ELSE AverageAndPick(SumScores(preds).classScores, Len(preds))

(***************************************************************************)
(* The outputs the model (an external collaborator) can hand back          *)
(***************************************************************************)
MaxHot == 3

MaxHotIU == 2

HotOrder == <<2, 4, 6, 1, 3, 5, 7>>

NumClasses == Len(CLASS_NAMES_000)

OneHot(h) == [j \in 1..NumClasses |-> IF j = h THEN Num(1, 1) ELSE Zero]

\* [0.1, 0.6, 0.3, 0, 0, 0, 0]
Mixed == <<Num(1, 10), Num(6, 10), Num(3, 10), Zero, Zero, Zero, Zero>>

\* a model with five output units: a probability vector of the wrong length
Short == <<Zero, Zero, Zero, Num(1, 1), Zero>>

Min(a, b) == IF a < b THEN a ELSE b

HotVectors(n) == {OneHot(HotOrder[h]) : h \in 1..Min(n, NumClasses)}

ModelOutputs == HotVectors(MaxHot) \cup {Mixed, Short}

ModelOutputsIU == HotVectors(MaxHotIU)

(***************************************************************************)
(* SpecEnsemble: one ensemble call, member by member, then the aggregation *)
(***************************************************************************)
Pending == [status |-> "pending"]

Members ==
  CASE fn = "predictWithEnsemble" -> numPredictions
    [] fn = "predict"             -> numCrops
    [] fn = "ensemblePrediction"  -> NumOptimizedCrops

IdleCrop == [pc |-> "idle"]

IdleApp == [pc |-> "idle"]

IdleCamera == [pc |-> "idle"]

IdleHandler == [pc |-> "idle"]

IdleRouter == [pc |-> "idle"]

InitEnsemble ==
  /\ \E f \in {"predictWithEnsemble", "predict", "ensemblePrediction"} :
       /\ fn = f
       /\ classNames \in
            CASE f = "predictWithEnsemble" -> {CLASS_NAMES_000, CLASS_NAMES_001}
              [] f = "predict"             -> {CLASS_NAMES_002}
              [] f = "ensemblePrediction"  -> {CLASS_NAMES_000, CLASS_NAMES_001}
  /\ i = 0
  /\ predictions = <<>>
  /\ result = Pending
  /\ crop = IdleCrop
  /\ app = IdleApp
  /\ camera = IdleCamera
  /\ handler = IdleHandler
  /\ router = IdleRouter

\* one member: the image is drawn, converted and inferred; its output is pushed.
\* ensemblePrediction pushes the result object of predictFn (the model file's
\* predict), the others the bare probability array.
MemberReturns ==
  /\ result.status = "pending"
  /\ i < Members
  /\ \E v \in IF fn = "ensemblePrediction" THEN ModelOutputsIU ELSE ModelOutputs :
       predictions' = Append(predictions,
                             IF fn = "ensemblePrediction" THEN predict(classNames, v) ELSE v)
  /\ i' = i + 1
  /\ UNCHANGED <<fn, classNames, result, crop, app, camera, handler, router>>

\* one member's inference throws: ensemblePrediction logs it and goes on to the
\* next crop; the model files' try/catch rethrows
MemberThrows ==
  /\ result.status = "pending"
  /\ i < Members
  /\ IF fn = "ensemblePrediction"
     THEN i' = i + 1 /\ UNCHANGED result
     ELSE result' = Threw("inference") /\ UNCHANGED i
  /\ UNCHANGED <<fn, classNames, predictions, crop, app, camera, handler, router>>

AggregateOutcome ==
  CASE fn = "predictWithEnsemble" ->
         [result |-> predictWithEnsemble(classNames, predictions),
          inputs |-> Accumulate(classNames, predictions).inputs]
    [] fn = "predict" ->
         [result |-> predictMultiCrop(classNames, predictions),
          inputs |-> Accumulate(classNames, predictions).inputs]
    [] fn = "ensemblePrediction" ->
         [result |-> ensemblePrediction(predictions),
          inputs |-> IF predictions = <<>> THEN predictions
                     ELSE SumScores(predictions).inputs]

\* after the last member: sum, divide, pick the maximum, return
Aggregate ==
  /\ result.status = "pending"
  /\ i = Members
  /\ LET outcome == AggregateOutcome
     IN /\ result' = outcome.result
        /\ predictions' = outcome.inputs
  /\ UNCHANGED <<fn, classNames, i, crop, app, camera, handler, router>>

NextEnsemble == MemberReturns \/ MemberThrows \/ Aggregate

SpecEnsemble == InitEnsemble /\ [][NextEnsemble]_vars

(***************************************************************************)
(* Properties of the aggregators                                           *)
(***************************************************************************)
Returned == result.status = "returned"

\* the probability array member m handed in (ensemblePrediction gets it
\* inside a prediction object, entry by entry)
InputVector(m) ==
  IF fn = "ensemblePrediction"
  THEN [j \in 1..Len(predictions[m].allProbabilities) |->
          predictions[m].allProbabilities[j].probability]
  ELSE predictions[m]

\* every input is a vector of N numbers, N the size of the label set
WellFormed ==
  \A m \in 1..Len(predictions) :
    /\ Len(InputVector(m)) = Len(classNames)
    /\ \A j \in 1..Len(classNames) : IsNum(InputVector(m)[j])

\* the arithmetic mean of entry j over the k inputs
ColumnMean(j) ==
  JsDiv(SumSeq([m \in 1..Len(predictions) |-> InputVector(m)[j]]), Len(predictions))

\* the returned combined entry that carries label j
CombinedOf(j) ==
  LET e == CHOOSE e \in {result.allProbabilities[k] : k \in 1..Len(result.allProbabilities)} :
             e.name = classNames[j]
  IN e.probability

OneEntryPerLabel ==
  /\ Len(result.allProbabilities) = Len(classNames)
  /\ \A j \in 1..Len(classNames) :
       \E k \in 1..Len(result.allProbabilities) : result.allProbabilities[k].name = classNames[j]

MeanOfInputSums ==
  JsDiv(SumSeq([m \in 1..Len(predictions) |-> SumSeq(InputVector(m))]), Len(predictions))

CombinedSum == SumSeq([j \in 1..Len(classNames) |-> CombinedOf(j)])

\* C1 as stated: in every aggregation over k >= 1 vectors of length N, by any
\* of the four aggregators, each combined entry is the arithmetic mean of that
\* entry over the inputs, and the combined sum is the mean of the input sums.
C1_EveryAggregatorReturnsTheMean ==
  (Returned /\ WellFormed) =>
    /\ OneEntryPerLabel
    /\ \A j \in 1..Len(classNames) : CombinedOf(j) = ColumnMean(j)
    /\ CombinedSum = MeanOfInputSums

\* C1 amended: that holds of predictWithEnsemble (both model files) and of
\* ImageUtils.ensemblePrediction (entries matched by label); the multi-crop
\* predict returns each mean multiplied by the weight of its denomination.
C1_MeanOrWeightedMean ==
  (Returned /\ WellFormed) =>
    /\ OneEntryPerLabel
    /\ fn # "predict" =>
         /\ \A j \in 1..Len(classNames) : CombinedOf(j) = ColumnMean(j)
         /\ CombinedSum = MeanOfInputSums
    /\ fn = "predict" =>
         \A j \in 1..Len(classNames) :
           CombinedOf(j) = JsMul(ColumnMean(j), denomWeights(classNames[j]))

\* a multi-crop predict returned an entry that its weight moved off the mean,
\* and the other aggregators returned over inputs that differ
C1_Witness ==
  /\ Returned /\ WellFormed
  /\ \/ fn = "predict" /\ \E j \in 1..Len(classNames) : CombinedOf(j) # ColumnMean(j)
     \/ fn # "predict" /\ Len(predictions) > 1 /\ predictions[1] # predictions[2]

\* C2: the returned probability is the maximum entry of the combined vector
\* and the returned label is the label of an entry holding it; five members
\* returning [0.1, 0.6, 0.3, 0, ...] select index 1, as does the single
\* vector [0.1, 0.6, 0.3] over three labels.
C2_LabelOfMaximum ==
  /\ (Returned /\ WellFormed) =>
       /\ \A k \in 1..Len(result.allProbabilities) :
            ~JsGt(result.allProbabilities[k].probability, result.probability)
       /\ \E j \in 1..Len(classNames) :
            /\ result.className = classNames[j]
            /\ CombinedOf(j) = result.probability
  /\ (Returned /\ fn = "predictWithEnsemble"
        /\ \A m \in 1..Len(predictions) : predictions[m] = Mixed) =>
       /\ result.className = classNames[2]
       /\ result.probability = Num(6, 10)
  /\ predictWithEnsemble(<<"a", "b", "c">>,
       [m \in 1..numPredictions |-> <<Num(1, 10), Num(6, 10), Num(3, 10)>>]).className = "b"

C2_Witness ==
  /\ Returned /\ WellFormed
  /\ fn = "predictWithEnsemble"
  /\ \A m \in 1..Len(predictions) : predictions[m] = Mixed

\* the lowest label index whose combined entry is the maximum
FirstMaxLabel ==
  CHOOSE j \in 1..Len(classNames) :
    /\ CombinedOf(j) = result.probability
    /\ \A k \in 1..(j - 1) : CombinedOf(k) # result.probability

\* C3: on an exact tie for the maximum the label of the lowest label index is
\* returned, for every label set.
C3_LowestIndexOnTie ==
  (Returned /\ WellFormed) => result.className = classNames[FirstMaxLabel]

\* C4: an aggregation over no prediction at all throws "All predictions
\* failed"; nothing is returned from an empty sequence.
C4_EmptyInputThrows ==
  /\ (result.status # "pending" /\ i = Members /\ predictions = <<>>) =>
       result = Threw("All predictions failed")
  /\ Returned => Len(predictions) >= 1

C4_Witness ==
  /\ fn = "ensemblePrediction"
  /\ i = Members
  /\ predictions = <<>>
  /\ result.status = "threw"

\* C5: an aggregation over inputs one of which has not N entries throws and
\* returns nothing.
C5_ShapeMismatchThrows ==
  (result.status # "pending" /\ i = Members /\ ~WellFormed) => result.status = "threw"

\* C6: the step that aggregates leaves every input as it was.
C6_InputsNotMutated ==
  [][(result.status = "pending" /\ result'.status # "pending") =>
       predictions' = predictions]_vars

C6_Witness ==
  /\ Returned
  /\ Len(predictions) = Members
  /\ Len(predictions) > 1
  /\ predictions[1] # predictions[2]

(***************************************************************************)
(* SpecCrops: the source rectangles handed to drawImage                    *)
(***************************************************************************)
MaxDim == 3

RandomSteps == 4

\* Math.random(): a value of [0, 1)
Randoms == {Num(k, RandomSteps) : k \in 0..(RandomSteps - 1)}

\* a || b
Truthy(a) == IsNum(a) /\ a # Zero

JsOr(a, b) == IF Truthy(a) THEN a ELSE b

\* Math.min(a, b), Math.floor(a)
MathMin(a, b) == IF IsNum(a) /\ IsNum(b) THEN (IF JsLt(b, a) THEN b ELSE a) ELSE NaN

MathFloor(a) == IF IsNum(a) THEN Norm(a[1] \div a[2], 1) ELSE NaN

Half(a) == JsDiv(a, 2)

\* The images a caller can pass: a canvas (width and height attributes, no
\* videoWidth) or a video element without width/height attributes
\* (videoWidth and videoHeight are the size of the frame, 0 before any frame
\* is available).
Canvas(w, h) ==
  [kind |-> "canvas", width |-> Num(w, 1), height |-> Num(h, 1),
   videoWidth |-> Undefined, videoHeight |-> Undefined]

Video(w, h) ==
  [kind |-> "video", width |-> Zero, height |-> Zero,
   videoWidth |-> Num(w, 1), videoHeight |-> Num(h, 1)]

Dims == {100 * k : k \in 0..MaxDim}

Images == {Canvas(w, h) : w \in Dims, h \in Dims} \cup {Video(w, h) : w \in Dims, h \in Dims}

\* the size of the source image itself
SourceWidth(image) == IF image.kind = "canvas" THEN image.width ELSE image.videoWidth

SourceHeight(image) == IF image.kind = "canvas" THEN image.height ELSE image.videoHeight

Rect(sx, sy, sWidth, sHeight) == [sx |-> sx, sy |-> sy, sWidth |-> sWidth, sHeight |-> sHeight]

\* image.width || image.videoWidth || 224
inputWidth(image) == JsOr(JsOr(image.width, image.videoWidth), Num(224, 1))

inputHeight(image) == JsOr(JsOr(image.height, image.videoHeight), Num(224, 1))

\* image.width || image.videoWidth of the multi-crop predict
inputWidth002(image) == JsOr(image.width, image.videoWidth)

inputHeight002(image) == JsOr(image.height, image.videoHeight)

\* (Math.random() * 0.2 - 0.1) * size
Jitter(r, size) == JsMul(JsSub(JsMul(r, Num(2, 10)), Num(1, 10)), size)

\* 0.8 + Math.random() * 0.4
Zoom(r) == JsAdd(Num(8, 10), JsMul(r, Num(4, 10)))

Neg(a) == JsSub(Zero, a)

\* predictWithEnsemble of the model file that resizes without cropping:
\* member k of 0..4, random draws r1, r2
EnsembleRect000(k, image, r1, r2) ==
  LET W == inputWidth(image)
      H == inputHeight(image)
  IN CASE k = 1 -> Rect(Neg(Jitter(r1, W)), Neg(Jitter(r2, H)), W, H)
       [] k = 2 -> LET zoom == Zoom(r1)
                       newWidth == JsMul(W, zoom)
                       newHeight == JsMul(H, zoom)
                   IN Rect(Half(JsSub(W, newWidth)), Half(JsSub(H, newHeight)),
                           newWidth, newHeight)
       [] OTHER -> Rect(Zero, Zero, W, H)

\* the center crop of the model file that crops to a square
CenterCrop001(image) ==
  LET W == inputWidth(image)
      H == inputHeight(image)
  IN IF JsGt(W, H) THEN Rect(Half(JsSub(W, H)), Zero, H, H)
     ELSE IF JsGt(H, W) THEN Rect(Zero, Half(JsSub(H, W)), W, W)
     ELSE Rect(Zero, Zero, W, H)

\* predictWithEnsemble of that model file: jitter for every member but the
\* first, zoom on top of it for member 2
EnsembleRect001(k, image, r1, r2, r3) ==
  LET c == CenterCrop001(image)
      j == Rect(JsAdd(c.sx, Jitter(r1, c.sWidth)), JsAdd(c.sy, Jitter(r2, c.sHeight)),
                c.sWidth, c.sHeight)
  IN IF k = 0 THEN c
     ELSE IF k = 2
          THEN LET zoom == Zoom(r3)
                   newWidth == JsMul(j.sWidth, zoom)
                   newHeight == JsMul(j.sHeight, zoom)
               IN Rect(JsAdd(j.sx, Half(JsSub(j.sWidth, newWidth))),
                       JsAdd(j.sy, Half(JsSub(j.sHeight, newHeight))),
                       newWidth, newHeight)
          ELSE j

\* the multi-crop predict: center, then the four corners at 0.9 of the
\* shorter side
CropRect002(k, image) ==
  LET W == inputWidth002(image)
      H == inputHeight002(image)
      full == MathMin(W, H)
      s == JsMul(MathMin(W, H), Num(9, 10))
  IN CASE k = 0 -> Rect(Half(JsSub(W, full)), Half(JsSub(H, full)), full, full)
       [] k = 1 -> Rect(Zero, Zero, s, s)
       [] k = 2 -> Rect(JsSub(W, s), Zero, s, s)
       [] k = 3 -> Rect(Zero, JsSub(H, s), s, s)
       [] OTHER -> Rect(JsSub(W, s), JsSub(H, s), s, s)

\* ImageUtils.createOptimizedCrops: crop k of 0..7
createOptimizedCrops(k, canvas) ==
  LET originalWidth == canvas.width
      originalHeight == canvas.height
      centerSize == MathMin(originalWidth, originalHeight)
      centerX == Half(JsSub(originalWidth, centerSize))
      centerY == Half(JsSub(originalHeight, centerSize))
      cornerSize == MathFloor(JsMul(centerSize, Num(7, 10)))
  IN CASE k = 0 -> Rect(centerX, centerY, centerSize, centerSize)
       [] k \in 1..Len(scales) ->
            LET scaledSize == MathFloor(JsMul(centerSize, scales[k]))
            IN Rect(JsAdd(centerX, Half(JsSub(centerSize, scaledSize))),
                    JsAdd(centerY, Half(JsSub(centerSize, scaledSize))),
                    scaledSize, scaledSize)
       [] k = Len(scales) + 1 -> Rect(Zero, Zero, cornerSize, cornerSize)
       [] k = Len(scales) + 2 ->
            Rect(JsSub(originalWidth, cornerSize), Zero, cornerSize, cornerSize)
       [] k = Len(scales) + 3 ->
            Rect(Zero, JsSub(originalHeight, cornerSize), cornerSize, cornerSize)
       [] OTHER ->
            Rect(JsSub(originalWidth, cornerSize), JsSub(originalHeight, cornerSize),
                 cornerSize, cornerSize)

\* What the canvas context's drawImage(image, sx, sy, sWidth, sHeight, ...)
\* does (the browser's contract): nothing if an argument is NaN; for a canvas
\* with a zero dimension it throws InvalidStateError; for a video without a
\* frame, or a zero-sized source rectangle, it draws nothing; otherwise it
\* draws the rectangle, clipped to the source.
drawImage(image, rect) ==
  IF ~(IsNum(rect.sx) /\ IsNum(rect.sy) /\ IsNum(rect.sWidth) /\ IsNum(rect.sHeight))
  THEN "nothing"
  ELSE IF ~Truthy(SourceWidth(image)) \/ ~Truthy(SourceHeight(image))
       THEN (IF image.kind = "canvas" THEN "InvalidStateError" ELSE "nothing")
       ELSE IF rect.sWidth = Zero \/ rect.sHeight = Zero THEN "nothing" ELSE "drawn"

Generators ==
  {"predictWithEnsemble_000", "predictWithEnsemble_001", "predict_002", "createOptimizedCrops",
   "ensemblePrediction"}

CropCount(gen) ==
  CASE gen = "predictWithEnsemble_000" -> numPredictions
    [] gen = "predictWithEnsemble_001" -> numPredictions
    [] gen = "predict_002"             -> numCrops
    [] gen = "createOptimizedCrops"    -> NumOptimizedCrops
    [] gen = "ensemblePrediction"      -> NumOptimizedCrops

\* the generators that draw every crop before anything is inferred
DrawsAllFirst == {"createOptimizedCrops", "ensemblePrediction"}

NoRect == [sx |-> Undefined, sy |-> Undefined, sWidth |-> Undefined, sHeight |-> Undefined]

InitCrops ==
  /\ \E gen \in Generators, image \in Images :
       /\ gen \in DrawsAllFirst => image.kind = "canvas"
       /\ crop = [pc |-> "loop", gen |-> gen, image |-> image, k |-> 0,
                  rect |-> NoRect, handed |-> 0, inferred |-> 0, error |-> "none"]
  /\ fn = "none"
  /\ classNames = <<>>
  /\ i = 0
  /\ predictions = <<>>
  /\ result = Pending
  /\ app = IdleApp
  /\ camera = IdleCamera
  /\ handler = IdleHandler
  /\ router = IdleRouter

MemberRect(gen, k, image, r1, r2, r3) ==
  CASE gen = "predictWithEnsemble_000" -> EnsembleRect000(k, image, r1, r2)
    [] gen = "predictWithEnsemble_001" -> EnsembleRect001(k, image, r1, r2, r3)
    [] gen = "predict_002"             -> CropRect002(k, image)
    [] gen \in DrawsAllFirst           -> createOptimizedCrops(k, image)

\* the same, going on to the next member without awaiting the inference
DrawCropNotAwaiting ==
  /\ crop.pc = "loop"
  /\ crop.k < CropCount(crop.gen)
  /\ \E r1 \in Randoms, r2 \in Randoms, r3 \in Randoms :
       LET rect == MemberRect(crop.gen, crop.k, crop.image, r1, r2, r3)
           drew == drawImage(crop.image, rect)
       IN IF drew = "InvalidStateError"
          THEN crop' = [crop EXCEPT !.pc = "threw", !.rect = rect,
                                    !.handed = @ + 1, !.error = drew]
          ELSE crop' = [crop EXCEPT !.k = @ + 1, !.rect = rect, !.handed = @ + 1]
  /\ UNCHANGED ensVars
  /\ UNCHANGED <<app, camera, handler, router>>

\* one turn of the loop up to its await: the rectangle is computed and handed
\* to drawImage; createOptimizedCrops pushes the canvas and goes on, the model
\* files make a tensor of it, call model.predict and await the data
DrawCrop ==
  /\ crop.pc = "loop"
  /\ crop.k < CropCount(crop.gen)
  /\ \E r1 \in Randoms, r2 \in Randoms, r3 \in Randoms :
       LET rect == MemberRect(crop.gen, crop.k, crop.image, r1, r2, r3)
           drew == drawImage(crop.image, rect)
       IN IF drew = "InvalidStateError"
          THEN crop' = [crop EXCEPT !.pc = "threw", !.rect = rect,
                                    !.handed = @ + 1, !.error = drew]
          ELSE IF crop.gen \in DrawsAllFirst
               THEN crop' = [crop EXCEPT !.k = @ + 1, !.rect = rect, !.handed = @ + 1]
               ELSE crop' = [crop EXCEPT !.pc = "awaiting", !.rect = rect,
                                         !.handed = @ + 1]
  /\ UNCHANGED ensVars
  /\ UNCHANGED <<app, camera, handler, router>>

\* ImageUtils.ensemblePrediction, its crops made: one turn of its loop up to
\* await predictFn(crops[i])
PredictCrop ==
  /\ crop.pc = "loop"
  /\ crop.gen = "ensemblePrediction"
  /\ crop.k = CropCount(crop.gen)
  /\ crop.inferred < CropCount(crop.gen)
  /\ crop' = [crop EXCEPT !.pc = "awaiting"]
  /\ UNCHANGED ensVars
  /\ UNCHANGED <<app, camera, handler, router>>

\* the awaited inference settles (await predictionTensor.data() in the model
\* files, await predictFn(crops[i]) in ImageUtils) and the loop goes on
MemberInferred ==
  /\ crop.pc = "awaiting"
  /\ crop' = [crop EXCEPT !.pc = "loop",
                          !.k = IF crop.gen \in DrawsAllFirst THEN @ ELSE @ + 1,
                          !.inferred = @ + 1]
  /\ UNCHANGED ensVars
  /\ UNCHANGED <<app, camera, handler, router>>

\* the loop is over: the crops (or the ensemble result) are returned
CropsDone ==
  /\ crop.pc = "loop"
  /\ crop.k = CropCount(crop.gen)
  /\ crop.gen = "ensemblePrediction" => crop.inferred = CropCount(crop.gen)
  /\ crop' = [crop EXCEPT !.pc = "returned"]
  /\ UNCHANGED ensVars
  /\ UNCHANGED <<app, camera, handler, router>>

NextCrops == DrawCrop \/ PredictCrop \/ MemberInferred \/ CropsDone

SpecCrops == InitCrops /\ [][NextCrops]_vars

JsLe(a, b) == IsNum(a) /\ IsNum(b) /\ ~JsGt(a, b)

\* C7: with a source of W > 0 by H > 0, every rectangle handed to drawImage
\* lies inside the source.
C7_RectWithinSource ==
  (crop.handed > 0 /\ Truthy(SourceWidth(crop.image)) /\ Truthy(SourceHeight(crop.image))) =>
    /\ JsLe(Zero, crop.rect.sx)
    /\ JsLe(Zero, crop.rect.sy)
    /\ JsLe(JsAdd(crop.rect.sx, crop.rect.sWidth), SourceWidth(crop.image))
    /\ JsLe(JsAdd(crop.rect.sy, crop.rect.sHeight), SourceHeight(crop.image))

\* C8: with a source of width or height 0 no crop is inferred and the call
\* does not return: it fails (with "invalid source dimensions").
C8_InvalidDimensionsFail ==
  (~Truthy(SourceWidth(crop.image)) \/ ~Truthy(SourceHeight(crop.image))) =>
    /\ crop.inferred = 0
    /\ crop.pc # "returned"

(***************************************************************************)
(* Spec: the app.js page                                                   *)
(***************************************************************************)
MaxStreams == 2

MaxStarts == 2

MaxCaptures == 1

MaxLabels == 2

\* the names getUserMedia rejects with
ErrorNames == {"NotAllowedError", "NotFoundError", "NotReadableError", "OverconstrainedError"}

\* the constraint sets startCamera tries, first to last
constraints == <<"environment HD", "any HD", "medium", "any">>

\* what modelHandler.predict resolves with
Denominations == {CLASS_NAMES_000[k] : k \in 1..Min(MaxLabels, NumClasses)}

\* showStatus: the message (its fixed text, and the text interpolated into it)
\* and whether it is styled as an error
showStatus(a, message, detail, isError) ==
  [a EXCEPT !.status = [message |-> message, detail |-> detail, isError |-> isError]]

\* the message startCamera's catch block builds from the error it caught
cameraErrorMessage(name) ==
  CASE name \in {"NotAllowedError", "PermissionDeniedError"} ->
         "Akses kamera ditolak. Berikan izin kamera di pengaturan browser Anda."
    [] name = "NotFoundError" ->
         "Tidak ada kamera yang terdeteksi pada perangkat ini."
    [] name \in {"NotReadableError", "AbortError"} ->
         "Kamera sedang digunakan oleh aplikasi lain atau tidak dapat diakses."
    [] OTHER -> "Tidak dapat mengakses kamera: Tidak dapat mengakses kamera."

NoText == [kind |-> "none", denomination |-> "", call |-> 0]

\* the page after the script has run: isModelLoaded and isCameraStarted are
\* false, no stream, both buttons disabled until enableInterface
InitApp ==
  /\ app = [init |-> "DOMContentLoaded",
            present |-> FALSE,
            isModelLoaded |-> FALSE,
            isCameraStarted |-> FALSE,
            model |-> "null",
            listening |-> FALSE,
            startDisabled |-> TRUE,
            captureDisabled |-> TRUE,
            srcObject |-> 0,
            onloadedmetadata |-> 0,
            metadataPending |-> FALSE,
            tracks |-> [s \in 1..MaxStreams |-> "none"],
            starts |-> <<>>,
            captures |-> <<>>,
            canvas |-> 0,
            resultText |-> NoText,
            spoken |-> <<>>,
            status |-> [message |-> "TensorFlow.js berhasil dimuat. Memeriksa model...",
                        detail |-> "", isError |-> FALSE],
            unloaded |-> FALSE]
  /\ fn = "none"
  /\ classNames = <<>>
  /\ i = 0
  /\ predictions = <<>>
  /\ result = Pending
  /\ crop = IdleCrop
  /\ camera = IdleCamera
  /\ handler = IdleHandler
  /\ router = IdleRouter

others == <<fn, classNames, i, predictions, result, crop, camera, handler, router>>

\* A HEAD fetch resolves with ok, resolves with a response that is not ok
\* (404), or rejects (network failure); only a rejection reaches .catch.
FetchOutcomes == {"ok", "not ok", "rejects"}

modelResponse(first, second, third) ==
  IF first # "rejects" THEN first
  ELSE IF second # "rejects" THEN second
  ELSE third

\* initApp up to the call of modelHandler.init(); first, second and third are
\* what a HEAD request for model.json at the three paths gives (present
\* records whether the file is there, "ok", at one of them)
initApp ==
  /\ ~app.unloaded
  /\ app.init = "DOMContentLoaded"
  /\ \E first \in FetchOutcomes, second \in FetchOutcomes, third \in FetchOutcomes :
       LET response == modelResponse(first, second, third)
           checked == [app EXCEPT !.present = "ok" \in {first, second, third}]
       IN app' = CASE response = "ok" ->
                       showStatus([checked EXCEPT !.init = "loading"],
                                  "File model ditemukan. Memuat model...", "", FALSE)
                   [] response = "not ok" ->
                       showStatus([checked EXCEPT !.init = "done"],
                                  "ERROR: File model tidak ditemukan.", "", TRUE)
                   [] OTHER ->
                       showStatus([checked EXCEPT !.init = "done"],
                                  "ERROR: Gagal menginisialisasi aplikasi.", "fetch", TRUE)
  /\ UNCHANGED others

\* enableInterface: the start button is enabled and the listeners attached
enableInterface(a) == [a EXCEPT !.startDisabled = FALSE, !.listening = TRUE]

\* modelHandler.init() resolved
modelInitResolves ==
  /\ ~app.unloaded
  /\ app.init = "loading"
  /\ app' = enableInterface(
              showStatus([app EXCEPT !.init = "done", !.model = "loaded",
                                     !.isModelLoaded = TRUE],
                         "Model berhasil dimuat! Siap untuk deteksi.", "", FALSE))
  /\ UNCHANGED others

\* the same, enabling the interface all the same
modelInitRejectsEnabling ==
  /\ ~app.unloaded
  /\ app.init = "loading"
  /\ app' = enableInterface(showStatus([app EXCEPT !.init = "done"],
                                       "ERROR: Gagal memuat model.", "init", TRUE))
  /\ UNCHANGED others

\* modelHandler.init() threw
modelInitRejects ==
  /\ ~app.unloaded
  /\ app.init = "loading"
  /\ app' = showStatus([app EXCEPT !.init = "done"],
                       "ERROR: Gagal memuat model.", "init", TRUE)
  /\ UNCHANGED others

\* stopCamera
stopCamera(a) ==
  IF a.srcObject # 0
  THEN showStatus(
         [a EXCEPT !.tracks[a.srcObject] = "stopped",
                   !.srcObject = 0,
                   !.metadataPending = FALSE,
                   !.isCameraStarted = FALSE,
                   !.captureDisabled = TRUE,
                   !.captures = [c \in 1..Len(a.captures) |->
                                   IF a.captures[c].pc = "predict"
                                      /\ a.captures[c].source = "camera"
                                   THEN [a.captures[c] EXCEPT !.stoppedMidFlight = TRUE]
                                   ELSE a.captures[c]]],
         "Kamera dimatikan.", "", FALSE)
  ELSE a

\* startCamera up to its first await: getUserMedia(constraints[0]) is pending
startCamera(a) ==
  [a EXCEPT !.starts = Append(@, [pc |-> "getUserMedia", attempt |-> 1,
                                  stream |-> 0, errorMsg |-> "", rejected |-> ""])]

\* toggleCamera, from the start button or the C key
toggleCamera ==
  /\ ~app.unloaded
  /\ app.listening
  /\ ~app.startDisabled
  /\ IF app.isCameraStarted
     THEN app' = stopCamera(app)
     ELSE /\ Len(app.starts) < MaxStarts
          /\ app' = startCamera(app)
  /\ UNCHANGED others

FreeStreams == {s \in 1..MaxStreams : app.tracks[s] = "none"}

\* getUserMedia resolves for call c: the loop breaks, the stream becomes the
\* video's srcObject and the call's handler its onloadedmetadata
getUserMediaResolves(c) ==
  /\ ~app.unloaded
  /\ app.starts[c].pc = "getUserMedia"
  /\ FreeStreams # {}
  /\ LET s == CHOOSE s \in FreeStreams : \A t \in FreeStreams : s <= t
     IN app' = [app EXCEPT !.tracks[s] = "live",
                           !.starts[c].stream = s,
                           !.starts[c].errorMsg = "",
                           !.starts[c].rejected = "",
                           !.starts[c].pc = "metadata",
                           !.srcObject = s,
                           !.onloadedmetadata = c,
                           !.metadataPending = TRUE]
  /\ UNCHANGED others

\* the same, keeping the message of the first rejection
getUserMediaRejectsKeepingFirst(c) ==
  /\ ~app.unloaded
  /\ app.starts[c].pc = "getUserMedia"
  /\ \E name \in ErrorNames :
       LET kept == IF app.starts[c].errorMsg = "" THEN name ELSE app.starts[c].errorMsg
           caught == [app EXCEPT !.starts[c].errorMsg = kept, !.starts[c].rejected = name]
       IN IF app.starts[c].attempt < Len(constraints)
          THEN app' = [caught EXCEPT !.starts[c].attempt = @ + 1]
          ELSE app' = showStatus([caught EXCEPT !.starts[c].pc = "failed",
                                                !.starts[c].attempt = 0,
                                                !.starts[c].errorMsg = ""],
                                 cameraErrorMessage("Error"), caught.starts[c].errorMsg, TRUE)
  /\ UNCHANGED others

\* getUserMedia rejects for call c: the next constraint set is tried; after
\* the last one a new Error carrying the last message is thrown and the catch
\* block reports it (rejected records what the browser rejected with last)
getUserMediaRejects(c) ==
  /\ ~app.unloaded
  /\ app.starts[c].pc = "getUserMedia"
  /\ \E name \in ErrorNames :
       LET caught == [app EXCEPT !.starts[c].errorMsg = name, !.starts[c].rejected = name]
       IN IF app.starts[c].attempt < Len(constraints)
          THEN app' = [caught EXCEPT !.starts[c].attempt = @ + 1]
          ELSE app' = showStatus([caught EXCEPT !.starts[c].pc = "failed",
                                                !.starts[c].attempt = 0,
                                                !.starts[c].errorMsg = ""],
                                 cameraErrorMessage("Error"), caught.starts[c].errorMsg, TRUE)
  /\ UNCHANGED others

\* the video element fires loadedmetadata for its srcObject: the handler set
\* last starts the 100 ms timer of its call
loadedmetadata ==
  /\ ~app.unloaded
  /\ app.metadataPending
  /\ app.srcObject # 0
  /\ app' = [app EXCEPT !.metadataPending = FALSE,
                        !.starts[app.onloadedmetadata].pc = "timer"]
  /\ UNCHANGED others

\* the timer fires: play(), resolve(), and startCamera runs to its end (a call
\* that has returned has no locals left: attempt and errorMsg are reset)
startCameraCompletes(c) ==
  /\ ~app.unloaded
  /\ app.starts[c].pc = "timer"
  /\ app' = [showStatus([app EXCEPT !.starts[c].pc = "started",
                                    !.starts[c].attempt = 0,
                                    !.isCameraStarted = TRUE],
                        "Kamera aktif", constraints[app.starts[c].attempt], FALSE)
               EXCEPT !.captureDisabled = FALSE]
  /\ UNCHANGED others

\* captureAndPredict, from the capture button or the space bar, up to its
\* first await (the 100 ms delay): the current video frame is drawn to the
\* shared canvas (canvas holds the number of the call whose image it shows);
\* at most n calls are followed
captureAndPredictUpTo(n) ==
  /\ ~app.unloaded
  /\ app.listening
  /\ ~app.captureDisabled
  /\ IF ~app.isCameraStarted \/ ~app.isModelLoaded
     THEN app' = showStatus(app, "Kamera atau model belum siap.", "", TRUE)
     ELSE /\ Len(app.captures) < n
          /\ app' = showStatus(
                       [app EXCEPT !.captures = Append(@, [pc |-> "delay",
                                                           source |-> "camera",
                                                           input |-> 0,
                                                           stoppedMidFlight |-> FALSE]),
                                   !.canvas = Len(app.captures) + 1],
                       "Memproses gambar...", "", FALSE)
  /\ UNCHANGED others

captureAndPredict == captureAndPredictUpTo(MaxCaptures)

\* the delay is over: modelHandler.predict(canvasElement) is called and reads
\* the canvas before its first await
captureCallsPredict(c) ==
  /\ ~app.unloaded
  /\ app.captures[c].pc = "delay"
  /\ app' = [app EXCEPT !.captures[c].pc = "predict", !.captures[c].input = app.canvas]
  /\ UNCHANGED others

\* the change listener of the file input, attached by setupImageUpload: the
\* file is read and the image loaded
imageUploadUpTo(n) ==
  /\ ~app.unloaded
  /\ app.listening
  /\ Len(app.captures) < n
  /\ app' = [app EXCEPT !.captures = Append(@, [pc |-> "reading", source |-> "upload",
                                                input |-> 0,
                                                stoppedMidFlight |-> FALSE])]
  /\ UNCHANGED others

imageUpload == imageUploadUpTo(MaxCaptures)

\* img.onload of upload c: the image is drawn and, if the model is loaded,
\* modelHandler.predict(canvasElement) is called
imageLoaded(c) ==
  /\ ~app.unloaded
  /\ app.captures[c].pc = "reading"
  /\ app' = IF app.isModelLoaded
            THEN showStatus([app EXCEPT !.captures[c].pc = "predict",
                                        !.captures[c].input = c,
                                        !.canvas = c],
                            "Memproses gambar...", "", FALSE)
            ELSE showStatus([app EXCEPT !.captures[c].pc = "skipped", !.canvas = c],
                            "Model belum dimuat. Tunggu sebentar...", "", TRUE)
  /\ UNCHANGED others

\* nothing is spoken
speakResultSilent(a, text, c) == a

\* speakResult
speakResult(a, text, c) == [a EXCEPT !.spoken = Append(@, [text |-> text, call |-> c])]

\* the prediction resolves: the result text is set, and spoken
showResult(a, c, denomination) ==
  speakResult(
    showStatus(
      [a EXCEPT !.captures[c].pc = "done",
                !.resultText = [kind |-> "detected", denomination |-> denomination,
                                call |-> c]],
      "Deteksi selesai!", "", FALSE),
    denomination, c)

predictResolves(c) ==
  /\ ~app.unloaded
  /\ app.captures[c].pc = "predict"
  /\ \E denomination \in Denominations : app' = showResult(app, c, denomination)
  /\ UNCHANGED others

\* the same, turning the camera off as well
predictRejectsStopping(c) ==
  /\ ~app.unloaded
  /\ app.captures[c].pc = "predict"
  /\ app' = showStatus(
              [stopCamera(app) EXCEPT
                 !.captures[c].pc = "failed",
                 !.resultText = [kind |-> "failed", denomination |-> "", call |-> c]],
              "ERROR: Gagal memproses gambar.", "predict", TRUE)
  /\ UNCHANGED others

\* the prediction throws: the catch block reports it
predictRejects(c) ==
  /\ ~app.unloaded
  /\ app.captures[c].pc = "predict"
  /\ app' = showStatus(
              [app EXCEPT !.captures[c].pc = "failed",
                          !.resultText = [kind |-> "failed", denomination |-> "", call |-> c]],
              "ERROR: Gagal memproses gambar.", "predict", TRUE)
  /\ UNCHANGED others

\* modelHandler.dispose
dispose(a) == [a EXCEPT !.model = "null"]

\* the beforeunload listener: the page is gone afterwards
beforeunload ==
  /\ ~app.unloaded
  /\ app' = [dispose(IF app.isCameraStarted THEN stopCamera(app) ELSE app)
               EXCEPT !.unloaded = TRUE]
  /\ UNCHANGED others

Next ==
  \/ initApp
  \/ modelInitResolves
  \/ modelInitRejects
  \/ toggleCamera
  \/ \E c \in 1..Len(app.starts) : getUserMediaResolves(c)
  \/ \E c \in 1..Len(app.starts) : getUserMediaRejects(c)
  \/ loadedmetadata
  \/ \E c \in 1..Len(app.starts) : startCameraCompletes(c)
  \/ captureAndPredict
  \/ \E c \in 1..Len(app.captures) : captureCallsPredict(c)
  \/ imageUpload
  \/ \E c \in 1..Len(app.captures) : imageLoaded(c)
  \/ \E c \in 1..Len(app.captures) : predictResolves(c)
  \/ \E c \in 1..Len(app.captures) : predictRejects(c)
  \/ beforeunload

Spec == InitApp /\ [][Next]_vars

\* C9: once the page has been torn down, every track the application acquired
\* is stopped.
C9_UnloadStopsEveryTrack ==
  app.unloaded => \A s \in 1..MaxStreams : app.tracks[s] # "live"

\* C10: a capture whose camera was stopped while its prediction was awaited
\* does not set the result text and is not spoken.
C10_StoppedCaptureDiscarded ==
  \A c \in 1..Len(app.captures) :
    (app.captures[c].stoppedMidFlight /\ app.captures[c].pc = "done") =>
      /\ app.resultText.call # c
      /\ \A u \in 1..Len(app.spoken) : app.spoken[u].call # c

(***************************************************************************)
(* SpecCamera: the Camera object of camera.js                              *)
(***************************************************************************)
MaxInits == 1

\* the facingMode of each configuration Camera.init tries, first to last
\* ("" where the configuration names none)
configs == <<"environment", "environment", "environment", "user", "">>

MaxSwitches == 1

\* video.onloadedmetadata: no handler, or the one installed by call `call`
\* of Camera.init ("init") or Camera.switchCamera ("switch")
NoHandler == [of |-> "none", call |-> 0]

\* the Camera object before init, on a page that has or lacks the elements
\* (video: this.video and this.canvas have been looked up and found)
InitCamera ==
  /\ \E found \in BOOLEAN :
       camera = [elements |-> found,
                 video |-> FALSE,
                 stream |-> 0,
                 srcObject |-> 0,
                 onloadedmetadata |-> NoHandler,
                 metadataPending |-> FALSE,
                 currentFacingMode |-> "environment",
                 tracks |-> [s \in 1..MaxStreams |-> "none"],
                 inits |-> <<>>,
                 switches |-> <<>>,
                 alert |-> ""]
  /\ fn = "none"
  /\ classNames = <<>>
  /\ i = 0
  /\ predictions = <<>>
  /\ result = Pending
  /\ crop = IdleCrop
  /\ app = IdleApp
  /\ handler = IdleHandler
  /\ router = IdleRouter

notCamera == <<fn, classNames, i, predictions, result, crop, app, handler, router>>

\* Camera.init up to its first await, called from outside (caller 0) or by
\* switchCamera call `caller`
BeginInit(cam, caller) ==
  [cam EXCEPT !.video = cam.elements,
              !.inits =
                 Append(@, IF cam.elements
                           THEN [pc |-> "getUserMedia", attempt |-> 1, stream |-> 0,
                                 error |-> "", rejected |-> "", caller |-> caller]
                           ELSE [pc |-> "returned false", attempt |-> 0, stream |-> 0,
                                 error |-> "", rejected |-> "", caller |-> caller])]

CameraInit ==
  /\ Len(camera.inits) < MaxInits
  /\ camera' = BeginInit(camera, 0)
  /\ UNCHANGED notCamera

\* call c of Camera.init has resolved with value: a switchCamera awaiting it
\* goes on to return true
InitSettled(cam, c, value) ==
  IF cam.inits[c].caller # 0
  THEN [cam EXCEPT !.switches[cam.inits[c].caller].pc = "returned true"]
  ELSE cam

\* the facing mode stored for the configuration that worked
usedFacingMode(attempt) == IF configs[attempt] # "" THEN configs[attempt] ELSE "user"

FreeCameraStreams == {s \in 1..MaxStreams : camera.tracks[s] = "none"}

\* getUserMedia resolves for call c of Camera.init
CameraGetUserMediaResolves(c) ==
  /\ camera.inits[c].pc = "getUserMedia"
  /\ FreeCameraStreams # {}
  /\ LET s == CHOOSE s \in FreeCameraStreams : \A t \in FreeCameraStreams : s <= t
     IN camera' = [camera EXCEPT !.tracks[s] = "live",
                                 !.inits[c].stream = s,
                                 !.inits[c].error = "",
                                 !.inits[c].rejected = "",
                                 !.inits[c].pc = "metadata",
                                 !.currentFacingMode = usedFacingMode(camera.inits[c].attempt),
                                 !.stream = s,
                                 !.srcObject = s,
                                 !.onloadedmetadata = [of |-> "init", call |-> c],
                                 !.metadataPending = TRUE]
  /\ UNCHANGED notCamera

\* getUserMedia rejects for call c of Camera.init: the next configuration is
\* tried; after the last the error kept is thrown, alerted, and init returns
\* false
CameraGetUserMediaRejects(c) ==
  /\ camera.inits[c].pc = "getUserMedia"
  /\ \E name \in ErrorNames :
       LET caught == [camera EXCEPT !.inits[c].error = name, !.inits[c].rejected = name]
       IN IF camera.inits[c].attempt < Len(configs)
          THEN camera' = [caught EXCEPT !.inits[c].attempt = @ + 1]
          ELSE camera' = InitSettled([caught EXCEPT !.inits[c].pc = "returned false",
                                                    !.inits[c].attempt = 0,
                                                    !.inits[c].error = "",
                                                    !.alert = caught.inits[c].error],
                                     c, FALSE)
  /\ UNCHANGED notCamera

\* the video fires loadedmetadata: the handler set last resolves its call
CameraLoadedMetadata ==
  /\ camera.metadataPending
  /\ camera.srcObject # 0
  /\ LET h == camera.onloadedmetadata
     IN camera' =
          IF h.of = "init"
          THEN InitSettled([camera EXCEPT !.metadataPending = FALSE,
                                          !.inits[h.call].pc = "returned true",
                                          !.inits[h.call].attempt = 0],
                           h.call, TRUE)
          ELSE [camera EXCEPT !.metadataPending = FALSE,
                              !.switches[h.call].pc = "returned true"]
  /\ UNCHANGED notCamera

\* Camera.stopCamera
stopCameraObject(cam) ==
  IF cam.stream # 0
  THEN [cam EXCEPT !.tracks[cam.stream] = "stopped",
                   !.stream = 0,
                   !.srcObject = IF cam.video THEN 0 ELSE @,
                   !.metadataPending = IF cam.video THEN FALSE ELSE @]
  ELSE cam

CameraStopCamera ==
  /\ camera' = stopCameraObject(camera)
  /\ UNCHANGED notCamera

\* Camera.switchCamera up to its first await: the camera is stopped, the
\* facing mode toggled, getUserMedia called with it
CameraSwitchCamera ==
  /\ Len(camera.switches) < MaxSwitches
  /\ camera' = [stopCameraObject(camera) EXCEPT
                  !.currentFacingMode = IF @ = "environment" THEN "user" ELSE "environment",
                  !.switches = Append(@, [pc |-> "getUserMedia", stream |-> 0])]
  /\ UNCHANGED notCamera

\* the catch block of switchCamera call w: await this.init()
RestoreCamera(cam, w) ==
  LET restoring == BeginInit([cam EXCEPT !.switches[w].pc = "init"], w)
      c == Len(restoring.inits)
  IN IF restoring.inits[c].pc = "returned false"
     THEN InitSettled(restoring, c, FALSE)
     ELSE restoring

\* getUserMedia resolves for call w of switchCamera: the stream is stored and
\* attached (a TypeError, caught, if this.video is still null)
SwitchGetUserMediaResolves(w) ==
  /\ camera.switches[w].pc = "getUserMedia"
  /\ FreeCameraStreams # {}
  /\ LET s == CHOOSE s \in FreeCameraStreams : \A t \in FreeCameraStreams : s <= t
         stored == [camera EXCEPT !.tracks[s] = "live",
                                  !.switches[w].stream = s,
                                  !.stream = s]
     IN camera' = IF camera.video
                  THEN [stored EXCEPT !.switches[w].pc = "metadata",
                                      !.srcObject = s,
                                      !.onloadedmetadata = [of |-> "switch", call |-> w],
                                      !.metadataPending = TRUE]
                  ELSE RestoreCamera(stored, w)
  /\ UNCHANGED notCamera

\* getUserMedia rejects for call w of switchCamera
SwitchGetUserMediaRejects(w) ==
  /\ camera.switches[w].pc = "getUserMedia"
  /\ camera' = RestoreCamera(camera, w)
  /\ UNCHANGED notCamera

NextCamera ==
  \/ CameraInit
  \/ \E c \in 1..Len(camera.inits) : CameraGetUserMediaResolves(c)
  \/ \E c \in 1..Len(camera.inits) : CameraGetUserMediaRejects(c)
  \/ CameraLoadedMetadata
  \/ CameraStopCamera
  \/ CameraSwitchCamera
  \/ \E w \in 1..Len(camera.switches) : SwitchGetUserMediaResolves(w)
  \/ \E w \in 1..Len(camera.switches) : SwitchGetUserMediaRejects(w)

SpecCamera == InitCamera /\ [][NextCamera]_vars

\* one step of the page, seen from its startCamera calls
StartCameraInOrder ==
  /\ \A c \in 1..Len(app'.starts) :
       c > Len(app.starts) =>
         app'.starts[c].pc = "getUserMedia" /\ app'.starts[c].attempt = 1
  /\ \A c \in 1..Len(app.starts) :
       LET s == app.starts[c]
           t == app'.starts[c]
       IN IF s.pc = "getUserMedia"
          THEN \/ t = s
               \/ /\ t.pc = "getUserMedia"
                  /\ s.attempt < Len(constraints)
                  /\ t.attempt = s.attempt + 1
                  /\ t.stream = 0
               \/ /\ t.pc = "metadata"
                  /\ t.attempt = s.attempt
                  /\ t.stream # 0
                  /\ app.tracks[t.stream] = "none"
                  /\ app'.tracks[t.stream] = "live"
                  /\ app'.srcObject = t.stream
               \/ /\ t.pc = "failed"
                  /\ s.attempt = Len(constraints)
                  /\ t.stream = 0
                  /\ app'.status.isError
                  /\ app'.status.detail = t.rejected
          ELSE /\ t.pc # "getUserMedia"
               /\ t.stream = s.stream
               /\ t.attempt \in {s.attempt, 0}

\* one step of the Camera object, seen from its init calls
CameraInitInOrder ==
  /\ \A c \in 1..Len(camera'.inits) :
       c > Len(camera.inits) =>
         \/ camera'.inits[c].pc = "getUserMedia" /\ camera'.inits[c].attempt = 1
         \/ camera'.inits[c].pc = "returned false" /\ ~camera.elements
  /\ \A c \in 1..Len(camera.inits) :
       LET s == camera.inits[c]
           t == camera'.inits[c]
       IN IF s.pc = "getUserMedia"
          THEN \/ t = s
               \/ /\ t.pc = "getUserMedia"
                  /\ s.attempt < Len(configs)
                  /\ t.attempt = s.attempt + 1
                  /\ t.stream = 0
               \/ /\ t.pc = "metadata"
                  /\ t.attempt = s.attempt
                  /\ t.stream # 0
                  /\ camera.tracks[t.stream] = "none"
                  /\ camera'.tracks[t.stream] = "live"
                  /\ camera'.srcObject = t.stream
                  /\ camera'.stream = t.stream
               \/ /\ t.pc = "returned false"
                  /\ s.attempt = Len(configs)
                  /\ t.stream = 0
                  /\ camera'.alert = t.rejected
          ELSE /\ t.pc # "getUserMedia"
               /\ t.stream = s.stream
               /\ t.attempt \in {s.attempt, 0}

\* C11: camera acquisition (startCamera of the page, Camera.init) tries its
\* configurations in list order, one at a time, starting with the first; a
\* success ends the loop with that stream attached and no later configuration
\* tried; when the last one is rejected too, the call reports an error
\* carrying the last rejection.
C11_ConstraintsInOrder ==
  [][(app # IdleApp => StartCameraInOrder) /\ (camera # IdleCamera => CameraInitInOrder)]_vars

\* a call has failed after the last constraint set, and another succeeded at
\* the third after two rejections
C11_Witness ==
  \E c \in 1..Len(app.starts), d \in 1..Len(app.starts) :
    /\ app.starts[c].pc = "failed"
    /\ app.starts[d].pc = "metadata"
    /\ app.starts[d].attempt = 3

\* C12: when acquisition failed because permission was denied, no device was
\* found or the device was busy, the status shown is the message specific to
\* that reason.
C12_SpecificFailureMessage ==
  (app.status.isError
     /\ app.status.detail \in {"NotAllowedError", "NotFoundError", "NotReadableError"})
    => app.status.message = cameraErrorMessage(app.status.detail)

\* startCamera call c fails in this step
StartFails(c) == app.starts[c].pc = "getUserMedia" /\ app'.starts[c].pc = "failed"

\* C13: when a startCamera call fails, an error status is shown and the camera
\* is left stopped: isCameraStarted is false, no stream is attached to the
\* video element and the capture button is disabled.
C13_FailedStartLeavesCameraStopped ==
  [][\A c \in 1..Len(app.starts) :
       StartFails(c) =>
         /\ app'.status.isError
         /\ ~app'.isCameraStarted
         /\ app'.srcObject = 0
         /\ app'.captureDisabled]_vars

\* C14: when initApp has ended without a loaded model, the error is on
\* display, isModelLoaded is false and the interface is disabled: no listener
\* is attached, so no camera start, capture or upload has begun and nothing
\* was predicted.
C14_LoadFailureKeepsInterfaceDisabled ==
  (app.init = "done" /\ ~app.isModelLoaded) =>
    /\ app.status.isError
    /\ ~app.listening
    /\ app.starts = <<>>
    /\ app.captures = <<>>
    /\ ~app.isCameraStarted
    /\ app.srcObject = 0
    /\ app.resultText = NoText
    /\ app.spoken = <<>>

\* modelHandler.init() has thrown, and the page lived on until it was unloaded
C14_Witness ==
  /\ app.init = "done"
  /\ ~app.isModelLoaded
  /\ app.status.message = "ERROR: Gagal memuat model."
  /\ app.unloaded

\* the prediction of capture c throws in this step
PredictionFails(c) ==
  /\ app.captures[c].source = "camera"
  /\ app.captures[c].pc = "predict"
  /\ app'.captures[c].pc = "failed"

\* C15: when the prediction of a capture throws, the failure is shown and
\* isCameraStarted, isModelLoaded, the attached stream and its tracks, and the
\* capture button's state are what they were; the other calls in flight are
\* untouched.
C15_FailedPredictionPreservesState ==
  [][\A c \in 1..Len(app.captures) :
       PredictionFails(c) =>
         /\ app'.status.isError
         /\ app'.isCameraStarted = app.isCameraStarted
         /\ app'.isModelLoaded = app.isModelLoaded
         /\ app'.model = app.model
         /\ app'.srcObject = app.srcObject
         /\ app'.tracks = app.tracks
         /\ app'.captureDisabled = app.captureDisabled
         /\ app'.listening = app.listening
         /\ app'.starts = app.starts
         /\ \A d \in 1..Len(app.captures) : d # c => app'.captures[d] = app.captures[d]]_vars

\* a capture's prediction has thrown with the camera still running: the
\* capture button is enabled for the next attempt
C15_Witness ==
  \E c \in 1..Len(app.captures) :
    /\ app.captures[c].source = "camera"
    /\ app.captures[c].pc = "failed"
    /\ app.status.message = "ERROR: Gagal memproses gambar."
    /\ app.isCameraStarted
    /\ app.isModelLoaded
    /\ app.srcObject # 0
    /\ ~app.captureDisabled

\* C16: an ensemble operation returns a result only if every one of its
\* members produced a prediction; if a member failed, the operation fails.
C16_MemberFailureFailsEnsemble ==
  (fn # "none" /\ result.status = "returned") => Len(predictions) = Members

\* the aggregation starts only after the last member's inference
AggregatesAfterLast ==
  /\ (crop # IdleCrop /\ crop.gen # "createOptimizedCrops") =>
       (crop.pc = "returned" =>
          crop.inferred = CropCount(crop.gen) /\ crop.handed = CropCount(crop.gen))
  /\ (fn # "none") =>
       /\ Len(predictions) <= i
       /\ result.status = "returned" => i = Members

\* C17 as stated: in every ensemble prediction a member is drawn only when
\* the member before it has been inferred, and the aggregation starts only
\* after the last member's inference.
C17_MemberInferredBeforeNextDrawn ==
  /\ (crop # IdleCrop /\ crop.gen # "createOptimizedCrops") =>
       /\ crop.handed - crop.inferred \in {0, 1}
       /\ crop.pc = "loop" => crop.handed = crop.inferred
  /\ AggregatesAfterLast

\* C17, amended: predictWithEnsemble and the multi-crop predict draw a member
\* only when the member before it has been inferred; ImageUtils'
\* ensemblePrediction draws all its crops first and then infers them one at a
\* time, each only after the one before; all aggregate only after the last
\* member's inference.
C17_MembersSequential ==
  /\ (crop # IdleCrop /\ crop.gen \notin DrawsAllFirst) =>
       /\ crop.k = crop.inferred
       /\ crop.handed - crop.inferred \in {0, 1}
       /\ crop.pc = "loop" => crop.handed = crop.inferred
       /\ crop.pc = "awaiting" => crop.handed = crop.inferred + 1
  /\ (crop # IdleCrop /\ crop.gen = "ensemblePrediction") =>
       /\ crop.pc # "threw" => crop.handed = crop.k
       /\ crop.inferred <= crop.k
       /\ (crop.pc = "awaiting" \/ crop.inferred > 0) => crop.handed = CropCount(crop.gen)
  /\ AggregatesAfterLast

\* the third member has been drawn and its inference is awaited, two members
\* inferred before it
C17_Witness ==
  /\ crop # IdleCrop
  /\ crop.gen = "predictWithEnsemble_000"
  /\ crop.pc = "awaiting"
  /\ crop.handed = 3
  /\ crop.inferred = 2

\* five members over seven labels, four returning the one-hot vector at index
\* 3 and one the one-hot vector at index 5 (counted from 0), in any order
FourAtThreeOneAtFive ==
  /\ fn \in {"predictWithEnsemble", "predict"}
  /\ Returned
  /\ Len(classNames) = 7
  /\ Len(predictions) = 5
  /\ Cardinality({m \in 1..5 : predictions[m] = OneHot(4)}) = 4
  /\ Cardinality({m \in 1..5 : predictions[m] = OneHot(6)}) = 1

\* C18 as stated: the ensemble result then selects index 3 with probability 0.8.
C18_SelectsIndexThreeWithFourFifths ==
  FourAtThreeOneAtFive =>
    /\ result.className = classNames[4]
    /\ result.probability = Num(8, 10)

\* C18, amended: the result selects index 3; predictWithEnsemble returns it
\* with probability 0.8, the multi-crop predict, whose label at index 3 is
\* 10000 with weight 1.1, with 0.88; index 5 is returned with 0.2.
C18_SelectsIndexThree ==
  FourAtThreeOneAtFive =>
    /\ result.className = classNames[4]
    /\ result.allProbabilities[4].name = classNames[4]
    /\ result.allProbabilities[4].probability = result.probability
    /\ result.allProbabilities[6].probability = Num(2, 10)
    /\ fn = "predictWithEnsemble" => result.probability = Num(8, 10)
    /\ fn = "predict" => result.probability = Num(88, 100)

\* the multi-crop predict has returned in that scenario, the odd member last
C18_Witness ==
  /\ FourAtThreeOneAtFive
  /\ fn = "predict"
  /\ predictions[5] = OneHot(6)

\* k >= 1 copies of one well-formed vector were aggregated by an averaging
\* aggregator (predictWithEnsemble, ImageUtils.ensemblePrediction)
Replicated ==
  /\ fn \in {"predictWithEnsemble", "ensemblePrediction"}
  /\ Returned
  /\ WellFormed
  /\ Len(predictions) >= 1
  /\ \A m \in 1..Len(predictions) : InputVector(m) = InputVector(1)

C19_WitnessMixed ==
  /\ Replicated
  /\ fn = "predictWithEnsemble"
  /\ predictions[1] = Mixed

\* C20: a prediction result has exactly one allProbabilities entry per label,
\* in label-set order: the entry at position j carries the label at position j
\* and a defined probability, the combined entry of that label. (Stated for
\* inputs that have one number per label.)
C20_EntriesInLabelSetOrder ==
  (Returned /\ WellFormed) =>
    /\ Len(result.allProbabilities) = Len(classNames)
    /\ \A j \in 1..Len(classNames) :
         /\ result.allProbabilities[j].name = classNames[j]
         /\ IsNum(result.allProbabilities[j].probability)
         /\ result.allProbabilities[j].probability = CombinedOf(j)

\* capture or upload c gets the outcome of its prediction in this step
PredictionSettles(c) ==
  /\ app.captures[c].pc = "predict"
  /\ app'.captures[c].pc \in {"done", "failed"}

C22_StartedOnlyWithStream ==
  app # IdleApp =>
    /\ app.isCameraStarted => app.srcObject # 0
    /\ ~app.captureDisabled <=> app.isCameraStarted

\* C23: at most one acquired camera stream is live at any time, and it is the
\* one attached to the video element, which is the one stopCamera stops: no
\* stream is left with running tracks out of stopCamera's reach.
C23_AtMostOneLiveStream ==
  app # IdleApp =>
    \A s \in 1..MaxStreams : app.tracks[s] = "live" => s = app.srcObject

(***************************************************************************)
(* SpecCapture: the page with the model loaded and the camera started;     *)
(* captureAndPredict and uploads re-entered while earlier ones still await *)
(***************************************************************************)
MaxReentrant == 3

\* the page after initApp, modelInitResolves, toggleCamera and one
\* startCamera that got its stream with the first constraint set
CameraActive ==
  [init |-> "done",
   present |-> TRUE,
   isModelLoaded |-> TRUE,
   isCameraStarted |-> TRUE,
   model |-> "loaded",
   listening |-> TRUE,
   startDisabled |-> FALSE,
   captureDisabled |-> FALSE,
   srcObject |-> 1,
   onloadedmetadata |-> 1,
   metadataPending |-> FALSE,
   tracks |-> [s \in 1..MaxStreams |-> IF s = 1 THEN "live" ELSE "none"],
   starts |-> <<[pc |-> "started", attempt |-> 0, stream |-> 1,
                 errorMsg |-> "", rejected |-> ""]>>,
   captures |-> <<>>,
   canvas |-> 0,
   resultText |-> NoText,
   spoken |-> <<>>,
   status |-> [message |-> "Kamera aktif", detail |-> constraints[1], isError |-> FALSE],
   unloaded |-> FALSE]

InitCapture ==
  /\ app = CameraActive
  /\ fn = "none"
  /\ classNames = <<>>
  /\ i = 0
  /\ predictions = <<>>
  /\ result = Pending
  /\ crop = IdleCrop
  /\ camera = IdleCamera
  /\ handler = IdleHandler
  /\ router = IdleRouter

NextCapture ==
  \/ captureAndPredictUpTo(MaxReentrant)
  \/ \E c \in 1..Len(app.captures) : captureCallsPredict(c)
  \/ imageUploadUpTo(MaxReentrant)
  \/ \E c \in 1..Len(app.captures) : imageLoaded(c)
  \/ \E c \in 1..Len(app.captures) : predictResolves(c)
  \/ \E c \in 1..Len(app.captures) : predictRejects(c)

SpecCapture == InitCapture /\ [][NextCapture]_vars

\* the state SpecCapture starts from is a state of the page
CameraActiveReached == app = CameraActive

\* every invocation has finished
AllSettled ==
  \A c \in 1..Len(app.captures) : app.captures[c].pc \in {"done", "failed", "skipped"}

\* C24: when captureAndPredict is invoked again while an earlier invocation is
\* still awaiting, each invocation's prediction is computed from the frame
\* that invocation drew itself, and the result text displayed once all
\* invocations have finished is that of the most recently captured frame.
C24_EachCapturePredictsItsOwnFrame ==
  /\ \A c \in 1..Len(app.captures) :
       app.captures[c].input # 0 => app.captures[c].input = c
  /\ (AllSettled /\ Len(app.captures) >= 1) => app.resultText.call = Len(app.captures)

(***************************************************************************)
(* SpecModel: the model handler of model.js: the module-level model, init  *)
(* with its two loaders, predict, predictWithEnsemble and dispose          *)
(***************************************************************************)
MaxModelInits == 2

MaxModelCalls == 2

NoModel == [kind |-> "null", by |-> 0]

\* let model = null; nothing has been called (inferences counts the
\* model.predict / model.execute calls made so far; disposed is true from a
\* dispose() until an init() succeeds)
InitModel ==
  /\ handler = [model |-> NoModel,
                inits |-> <<>>,
                calls |-> <<>>,
                inferences |-> 0,
                disposed |-> FALSE]
  /\ fn = "none"
  /\ classNames = <<>>
  /\ i = 0
  /\ predictions = <<>>
  /\ result = Pending
  /\ crop = IdleCrop
  /\ app = IdleApp
  /\ camera = IdleCamera
  /\ router = IdleRouter

notHandler == <<fn, classNames, i, predictions, result, crop, app, camera, router>>

\* init() up to its first await: tf.loadGraphModel(MODEL_PATH) is pending
ModelInit ==
  /\ Len(handler.inits) < MaxModelInits
  /\ handler' = [handler EXCEPT !.inits = Append(@, [graph |-> "pending",
                                                     layers |-> "untried",
                                                     outcome |-> "pending"])]
  /\ UNCHANGED notHandler

\* tf.loadGraphModel resolved for call n: model = the loaded model; return true
GraphModelLoads(n) ==
  /\ handler.inits[n].graph = "pending"
  /\ handler' = [handler EXCEPT !.model = [kind |-> "GraphModel", by |-> n],
                                !.disposed = FALSE,
                                !.inits[n].graph = "loaded",
                                !.inits[n].outcome = "true"]
  /\ UNCHANGED notHandler

\* tf.loadGraphModel rejected: tf.loadLayersModel(MODEL_PATH) is pending
GraphModelFails(n) ==
  /\ handler.inits[n].graph = "pending"
  /\ handler' = [handler EXCEPT !.inits[n].graph = "failed",
                                !.inits[n].layers = "pending"]
  /\ UNCHANGED notHandler

\* tf.loadLayersModel resolved for call n: model = the loaded model; return true
LayersModelLoads(n) ==
  /\ handler.inits[n].layers = "pending"
  /\ handler' = [handler EXCEPT !.model = [kind |-> "LayersModel", by |-> n],
                                !.disposed = FALSE,
                                !.inits[n].layers = "loaded",
                                !.inits[n].outcome = "true"]
  /\ UNCHANGED notHandler

\* the same, resetting the module-level model
LayersModelFailsClearingModel(n) ==
  /\ handler.inits[n].layers = "pending"
  /\ handler' = [handler EXCEPT !.model = NoModel,
                                !.inits[n].layers = "failed",
                                !.inits[n].outcome = "threw"]
  /\ UNCHANGED notHandler

\* tf.loadLayersModel rejected as well: init throws
LayersModelFails(n) ==
  /\ handler.inits[n].layers = "pending"
  /\ handler' = [handler EXCEPT !.inits[n].layers = "failed",
                                !.inits[n].outcome = "threw"]
  /\ UNCHANGED notHandler

\* the call record of predict / predictWithEnsemble that found no model
NotLoaded(f) ==
  [fn |-> f, pc |-> "threw", error |-> "Model not loaded. Please call init() first.",
   k |-> 0, nullAtCall |-> TRUE]

\* the first inference of a call: the image is drawn and model.predict /
\* model.execute runs inside tf.tidy; the call then awaits data()
FirstInference(f) ==
  [fn |-> f, pc |-> "data", error |-> "", k |-> 1, nullAtCall |-> FALSE]

\* the same without the guard on the module-level model
ModelCallUnguarded(f) ==
  /\ Len(handler.calls) < MaxModelCalls
  /\ handler' = [handler EXCEPT !.calls = Append(@, FirstInference(f)),
                                !.inferences = @ + 1]
  /\ UNCHANGED notHandler

\* predict(image) (f = "predict") or predictWithEnsemble(image), up to the
\* first await
ModelCall(f) ==
  /\ Len(handler.calls) < MaxModelCalls
  /\ handler' = IF handler.model = NoModel
                THEN [handler EXCEPT !.calls = Append(@, NotLoaded(f))]
                ELSE [handler EXCEPT !.calls = Append(@, FirstInference(f)),
                                     !.inferences = @ + 1]
  /\ UNCHANGED notHandler

\* predictionTensor.data() resolved for call c: predict returns; the ensemble
\* goes on to its next member (model.predict on a null model is a TypeError,
\* rethrown by the catch block) or aggregates after the last one
ModelDataResolves(c) ==
  /\ handler.calls[c].pc = "data"
  /\ handler' =
       IF handler.calls[c].fn = "predict" \/ handler.calls[c].k = numPredictions
       THEN [handler EXCEPT !.calls[c].pc = "returned"]
       ELSE IF handler.model = NoModel
            THEN [handler EXCEPT !.calls[c].pc = "threw",
                                 !.calls[c].error = "TypeError"]
            ELSE [handler EXCEPT !.calls[c].k = @ + 1, !.inferences = @ + 1]
  /\ UNCHANGED notHandler

\* predictionTensor.data() rejected: the catch block rethrows
ModelDataRejects(c) ==
  /\ handler.calls[c].pc = "data"
  /\ handler' = [handler EXCEPT !.calls[c].pc = "threw", !.calls[c].error = "data"]
  /\ UNCHANGED notHandler

\* dispose()
ModelDispose ==
  /\ handler' = [handler EXCEPT !.model = NoModel, !.disposed = TRUE]
  /\ UNCHANGED notHandler

NextModel ==
  \/ ModelInit
  \/ \E n \in 1..Len(handler.inits) : GraphModelLoads(n)
  \/ \E n \in 1..Len(handler.inits) : GraphModelFails(n)
  \/ \E n \in 1..Len(handler.inits) : LayersModelLoads(n)
  \/ \E n \in 1..Len(handler.inits) : LayersModelFails(n)
  \/ \E f \in {"predict", "predictWithEnsemble"} : ModelCall(f)
  \/ \E c \in 1..Len(handler.calls) : ModelDataResolves(c)
  \/ \E c \in 1..Len(handler.calls) : ModelDataRejects(c)
  \/ ModelDispose

SpecModel == InitModel /\ [][NextModel]_vars

\* an init() has succeeded
SomeInitSucceeded == \E n \in 1..Len(handler.inits) : handler.inits[n].outcome = "true"

\* C25: predict and predictWithEnsemble, called while the module-level model
\* is null, fail with the "Model not loaded" error and run no inference; the
\* model is null before any init() has succeeded and from a dispose() until
\* an init() succeeds; no inference runs while it is null.
C25_NullModelFailsWithoutInference ==
  [][handler # IdleHandler =>
       /\ (~SomeInitSucceeded \/ handler.disposed) => handler.model = NoModel
       /\ handler.model = NoModel =>
            /\ handler'.inferences = handler.inferences
            /\ Len(handler'.calls) > Len(handler.calls) =>
                 LET call == handler'.calls[Len(handler'.calls)]
                 IN /\ call.pc = "threw"
                    /\ call.error = "Model not loaded. Please call init() first."
                    /\ call.k = 0]_vars

\* a call made while the model was loaded, then one made after dispose()
C25_Witness ==
  /\ handler # IdleHandler
  /\ Len(handler.calls) = 2
  /\ ~handler.calls[1].nullAtCall
  /\ handler.calls[2] = NotLoaded("predictWithEnsemble")
  /\ handler.disposed
  /\ handler.model = NoModel

\* what one init() call has tried and how it ended
LoadersInOrder(call) ==
  /\ call.layers # "untried" => call.graph = "failed"
  /\ call.outcome = "true" <=> (call.graph = "loaded" \/ call.layers = "loaded")
  /\ call.outcome = "threw" <=> (call.graph = "failed" /\ call.layers = "failed")

\* C26: init() tries the GraphModel loader first and the LayersModel loader
\* only if the first failed; it resolves true exactly when one loader
\* succeeded, and the module-level model is then the model that loader
\* returned; if both fail it throws and leaves the module-level model as it
\* was.
C26_InitTriesGraphThenLayers ==
  [][handler # IdleHandler =>
       \A n \in 1..Len(handler.inits) :
         /\ LoadersInOrder(handler.inits[n])
         /\ LoadersInOrder(handler'.inits[n])
         /\ handler.inits[n].outcome = "pending" =>
              /\ handler'.inits[n].outcome = "true" =>
                   handler'.model =
                     [kind |-> IF handler'.inits[n].graph = "loaded"
                               THEN "GraphModel" ELSE "LayersModel",
                      by |-> n]
              /\ handler'.inits[n].outcome = "threw" => handler'.model = handler.model]_vars

\* the first init() loaded the model with the second loader; a second init()
\* failed with both and the model is still the first one's
C26_Witness ==
  /\ handler # IdleHandler
  /\ Len(handler.inits) = 2
  /\ handler.inits[1] = [graph |-> "failed", layers |-> "loaded", outcome |-> "true"]
  /\ handler.inits[2] = [graph |-> "failed", layers |-> "failed", outcome |-> "threw"]
  /\ handler.model = [kind |-> "LayersModel", by |-> 1]

\* initApp has checked the paths in this step
PathsChecked == app.init = "DOMContentLoaded" /\ app'.init # "DOMContentLoaded"

\* C27: initApp goes on to load the model whenever model.json is present at
\* one of the three checked paths, and reports the model-file-not-found error
\* only when it is present at none of them.
C27_LoadsWhenPresentAtAnyPath ==
  [][(app # IdleApp /\ PathsChecked) =>
       /\ app'.present => app'.init = "loading"
       /\ app'.status.message = "ERROR: File model tidak ditemukan." => ~app'.present]_vars

\* C28: on a page that has the video and canvas elements, a switchCamera call
\* resolves true only if a camera stream is active then: Camera.stream is set,
\* live, and attached to the video.
C28_SwitchTrueOnlyWithStream ==
  [][(camera # IdleCamera /\ camera.elements) =>
       \A w \in 1..Len(camera.switches) :
         (camera.switches[w].pc # "returned true"
            /\ camera'.switches[w].pc = "returned true") =>
           /\ camera'.stream # 0
           /\ camera'.srcObject = camera'.stream
           /\ camera'.tracks[camera'.stream] = "live"]_vars

(***************************************************************************)
(* SpecLive: the page under the scheduling the browser guarantees: a       *)
(* pending getUserMedia settles, a timer that was set fires, and (granted  *)
(* here) the video fires loadedmetadata while a stream is attached and the *)
(* event is due.  What the user does is under no obligation.               *)
(***************************************************************************)
getUserMediaSettles(c) ==
  /\ c \in 1..Len(app.starts)
  /\ getUserMediaResolves(c) \/ getUserMediaRejects(c)

timerFires(c) ==
  /\ c \in 1..Len(app.starts)
  /\ startCameraCompletes(c)

Scheduling ==
  /\ \A c \in 1..MaxStarts : WF_vars(getUserMediaSettles(c))
  /\ \A c \in 1..MaxStarts : WF_vars(timerFires(c))
  /\ WF_vars(loadedmetadata)

SpecLive == InitApp /\ [][Next]_vars /\ Scheduling

\* startCamera call c is in flight / has ended with the camera reported
\* active or an error reported
StartInFlight(c) ==
  c <= Len(app.starts) /\ app.starts[c].pc \in {"getUserMedia", "metadata", "timer"}

StartCompleted(c) ==
  c <= Len(app.starts) /\ app.starts[c].pc \in {"started", "failed"}

\* C29: every startCamera call eventually completes, with the camera reported
\* active or with a reported error (unless the page is unloaded first).
C29_EveryStartCompletes ==
  \A c \in 1..MaxStarts : StartInFlight(c) ~> (StartCompleted(c) \/ app.unloaded)

(***************************************************************************)
(* SpecRouter: the hash router                                             *)
(***************************************************************************)
MaxControllers == 2

MaxRouterInits == 2

MaxNavigations == 3

\* the paths the application registers, and what window.location.hash can
\* hold after its "#" ("" for an empty hash)
RoutePaths == {"/", "/about"}

HashPaths == {"", "/", "/about", "/missing", "toString", "__proto__"}

\* routes: {} -- no controller (0) is registered for any path; no listener
InitRouter ==
  /\ router = [routes |-> [p \in RoutePaths |-> 0],
               hash |-> "",
               listeners |-> 0,
               handled |-> 0,
               last |-> [path |-> "", invoked |-> <<>>, logged |-> FALSE, threw |-> FALSE]]
  /\ fn = "none"
  /\ classNames = <<>>
  /\ i = 0
  /\ predictions = <<>>
  /\ result = Pending
  /\ crop = IdleCrop
  /\ app = IdleApp
  /\ camera = IdleCamera
  /\ handler = IdleHandler

notRouter == <<fn, classNames, i, predictions, result, crop, app, camera, handler>>

\* this.routes[path] of the plain object routes: the registered controller,
\* else what Object.prototype supplies under that name, else undefined
Lookup(routes, path) ==
  IF path \in RoutePaths /\ routes[path] # 0
  THEN [is |-> "controller", id |-> routes[path]]
  ELSE IF path = "toString"
       THEN [is |-> "Object.prototype.toString", id |-> 0]
       ELSE IF path = "__proto__"
            THEN [is |-> "Object.prototype", id |-> 0]
            ELSE [is |-> "undefined", id |-> 0]

\* window.location.hash.slice(1) || "/"
currentPath(hash) == IF hash = "" THEN "/" ELSE hash

\* handleRoute: controller(), else routes["/"](), else console.error; calling
\* a controller that is not a function throws a TypeError
handleRoute(r) ==
  LET path == currentPath(r.hash)
      controller == Lookup(r.routes, path)
      default == Lookup(r.routes, "/")
      called == [path |-> path, invoked |-> <<>>, logged |-> FALSE, threw |-> FALSE]
  IN [r EXCEPT !.handled = @ + 1,
               !.last = IF controller.is = "Object.prototype"
                        THEN [called EXCEPT !.threw = TRUE]
                        ELSE IF controller.is # "undefined"
                             THEN [called EXCEPT !.invoked = <<controller>>]
                             ELSE IF default.is # "undefined"
                                  THEN [called EXCEPT !.invoked = <<default>>]
                                  ELSE [called EXCEPT !.logged = TRUE]]

\* Router.addRoute(path, controller)
RouterAddRoute ==
  /\ \E path \in RoutePaths, controller \in 1..MaxControllers :
       router' = [router EXCEPT !.routes[path] = controller]
  /\ UNCHANGED notRouter

\* Router.init: the hashchange listener is added and the current route handled
RouterInit ==
  /\ router.listeners < MaxRouterInits
  /\ router.handled < MaxNavigations
  /\ router' = handleRoute([router EXCEPT !.listeners = @ + 1])
  /\ UNCHANGED notRouter

\* the hash changes: every listener calls handleRoute (the routes do not
\* change in between, so the calls are alike and the last one is kept)
RouterHashChange ==
  /\ router.handled < MaxNavigations
  /\ \E hash \in HashPaths \ {router.hash} :
       LET changed == [router EXCEPT !.hash = hash]
       IN router' = IF router.listeners = 0
                    THEN changed
                    ELSE [handleRoute(changed) EXCEPT !.handled = router.handled + router.listeners]
  /\ UNCHANGED notRouter

NextRouter == RouterAddRoute \/ RouterInit \/ RouterHashChange

SpecRouter == InitRouter /\ [][NextRouter]_vars

\* which controller addRoute registered for a path (0: none)
Registered(path) == IF path \in RoutePaths THEN router'.routes[path] ELSE 0

\* C30: a handleRoute call invokes at most one controller: the one registered
\* with addRoute for the current hash path ("/" when the hash is empty) if
\* there is one, otherwise the one registered for "/"; when neither is
\* registered it invokes none and logs an error.
C30_OneRegisteredControllerPerRoute ==
  [][(router # IdleRouter /\ router'.handled > router.handled) =>
       LET call == router'.last
           path == currentPath(router'.hash)
       IN /\ call.path = path
          /\ Len(call.invoked) <= 1
          /\ ~call.threw
          /\ IF Registered(path) # 0
             THEN call.invoked = <<[is |-> "controller", id |-> Registered(path)]>>
             ELSE IF Registered("/") # 0
                  THEN call.invoked = <<[is |-> "controller", id |-> Registered("/")]>>
                  ELSE call.invoked = <<>> /\ call.logged]_vars

====
